---- MODULE Spec2Model ----
(***************************************************************************)
(* A model of python/notebook_parser.py: the title extractor, the output   *)
(* normalizer, the cell/document extractor and the persistence adapter.    *)
(*                                                                         *)
(* A Python string is a sequence of characters; a character is a           *)
(* one-token string.  A JSON value that may be a string or a list of       *)
(* strings is a tagged record, and a key that is absent from a JSON object *)
(* is the value Missing, so that dict.get(key, default) is modelled by     *)
(* what it does.                                                           *)
(***************************************************************************)
EXTENDS Integers, Sequences, FiniteSets, TLC

VARIABLES
    pc,             \* position of the running call
    source_text,    \* extract_title_from_source: its argument
    title,          \* extract_title_from_source: its return value
    outputs,        \* extract_output_from_outputs: its argument
    oidx,           \* extract_output_from_outputs: records consumed so far
    output_texts,   \* extract_output_from_outputs: the fragment buffer
    output_text,    \* extract_output_from_outputs: its return value
    notebook,       \* parse_jupyter_notebook: the content of the file read
    cells,          \* parse_jupyter_notebook: the list the loop iterates
    idx,            \* parse_jupyter_notebook: cells consumed so far
    results,        \* parse_jupyter_notebook: the result list
    outcome,        \* "running", "ok" (returned) or "error" (raised)
    fs,             \* save_parsed_results: the files, path -> content
    dirs,           \* save_parsed_results: the directories that exist
    notebook_path,  \* save_parsed_results: argument
    output_path,    \* save_parsed_results: argument, then the local
    remove_source,  \* save_parsed_results: argument
    written,        \* save_parsed_results: the results were dumped to output_path
    remove_tried,   \* save_parsed_results: os.remove was called
    warned,         \* save_parsed_results: the warning of line 144 was printed
    ret             \* save_parsed_results: the returned path

vars == <<pc, source_text, title, outputs, oidx, output_texts, output_text,
          notebook, cells, idx, results, outcome, fs, dirs, notebook_path, output_path,
          remove_source, written, remove_tried, warned, ret>>

titleVars == <<source_text, title>>
outputVars == <<outputs, oidx, output_texts, output_text>>
parseVars == <<notebook, cells, idx, results>>
saveVars == <<fs, dirs, notebook_path, output_path, remove_source, written,
              remove_tried, warned, ret>>

----------------------------------------------------------------------------
(* Characters and strings *)

QUOTE == "\""
NL == "\n"
SP == " "
ESC == "ESC"
LBRACKET == "["
DIGIT == "0"
LETTER == "m"
TEXT == "a"

\* The characters str.strip() removes, among those of the model.
Whitespace == {SP, NL}

\* The characters [a-zA-Z] of the model.
Letters == {LETTER, TEXT}

\* The characters [;?0-9] of the model.
AnsiParams == {DIGIT}

TRIPLE == <<QUOTE, QUOTE, QUOTE>>
CSI == <<ESC, LBRACKET, DIGIT, LETTER>>

RECURSIVE Concat(_)
\* ''.join(parts), parts a sequence of strings.
Concat(parts) ==
    IF parts = <<>> THEN <<>> ELSE Head(parts) \o Concat(Tail(parts))

RECURSIVE JoinWith(_, _)
\* sep.join(parts).
JoinWith(sep, parts) ==
    IF parts = <<>> THEN <<>>
    ELSE IF Len(parts) = 1 THEN Head(parts)
    ELSE Head(parts) \o sep \o JoinWith(sep, Tail(parts))

RECURSIVE LStrip(_)
LStrip(s) ==
    IF s # <<>> /\ Head(s) \in Whitespace THEN LStrip(Tail(s)) ELSE s

RECURSIVE RStrip(_)
RStrip(s) ==
    IF s # <<>> /\ s[Len(s)] \in Whitespace
    THEN RStrip(SubSeq(s, 1, Len(s) - 1))
    ELSE s

\* str.strip()
Strip(s) == RStrip(LStrip(s))

----------------------------------------------------------------------------
(* extract_title_from_source *)

\* The first newline at or after position i of s, 0 when there is none.
RECURSIVE NextNewline(_, _)
NextNewline(s, i) ==
    IF i > Len(s) THEN 0
    ELSE IF s[i] = NL THEN i
    ELSE NextNewline(s, i + 1)

\* docstring_pattern matches at position i: three quotes, then one or more
\* characters other than a newline, then a newline.
DocstringMatchAt(s, i) ==
    /\ i + 3 <= Len(s)
    /\ SubSeq(s, i, i + 2) = TRIPLE
    /\ s[i + 3] # NL
    /\ NextNewline(s, i + 3) # 0

\* re.search: the leftmost position where the pattern matches, 0 for None.
RECURSIVE SearchFrom(_, _)
SearchFrom(s, i) ==
    IF i > Len(s) THEN 0
    ELSE IF DocstringMatchAt(s, i) THEN i
    ELSE SearchFrom(s, i + 1)

\* match.group(1): the greedy run of non-newline characters.
Group1(s, i) == SubSeq(s, i + 3, NextNewline(s, i + 3) - 1)

extract_title_from_source(s) ==
    LET m == SearchFrom(s, 1)
    IN IF m # 0 THEN Strip(Group1(s, m)) ELSE <<>>

----------------------------------------------------------------------------
(* JSON values *)

\* A key that the JSON object does not have.
Missing == [tag |-> "missing"]
\* A JSON string.
Str(s) == [tag |-> "str", val |-> s]
\* A JSON string that is one of the format's tags (a cell_type, an output_type).
Name(x) == [tag |-> "str", name |-> x]
\* Python's None.
None == [tag |-> "none"]
\* A JSON array.
List(xs) == [tag |-> "list", val |-> xs]
\* A JSON object holding at most the key text/plain (the data of a record).
Dict(text_plain) == [tag |-> "dict", text_plain |-> text_plain]

\* dict.get(key, default), v being the value under the key or Missing.
Get(v, default) == IF v.tag = "missing" THEN default ELSE v

\* An output record; every field is a value or Missing.
OutputRecord(ot, text, data, tb) ==
    [output_type |-> ot, text |-> text, data |-> data, traceback |-> tb]

\* A cell; every field is a value or Missing.
Cell(ct, src, outs) == [cell_type |-> ct, source |-> src, outputs |-> outs]

----------------------------------------------------------------------------
(* click.utils.strip_ansi, imported as remove_ansi_codes:                  *)
(* re.compile(r"\033\[[;?0-9]*[a-zA-Z]").sub("", value)                    *)

\* The first position at or after i of s that holds no parameter character.
RECURSIVE SkipParams(_, _)
SkipParams(s, i) ==
    IF i <= Len(s) /\ s[i] \in AnsiParams THEN SkipParams(s, i + 1) ELSE i

\* The length of the escape sequence that starts at position i, 0 for none.
AnsiMatchLen(s, i) ==
    IF i + 1 <= Len(s) /\ s[i] = ESC /\ s[i + 1] = LBRACKET
    THEN LET j == SkipParams(s, i + 2)
         IN IF j <= Len(s) /\ s[j] \in Letters THEN j - i + 1 ELSE 0
    ELSE 0

\* One left-to-right pass that drops every non-overlapping match.
RECURSIVE AnsiSubFrom(_, _)
AnsiSubFrom(s, i) ==
    IF i > Len(s) THEN <<>>
    ELSE LET n == AnsiMatchLen(s, i)
         IN IF n > 0 THEN AnsiSubFrom(s, i + n)
            ELSE <<s[i]>> \o AnsiSubFrom(s, i + 1)

remove_ansi_codes(s) == AnsiSubFrom(s, 1)

----------------------------------------------------------------------------
(* extract_output_from_outputs *)

\* isinstance(v, list): extend with the elements, else append the value.
ExtendOrAppend(v) == IF v.tag = "list" THEN v.val ELSE <<v.val>>

\* Contribution with the traceback lines joined by '' instead of '\n'.
Contribution_TracebackUnseparated(output) ==
    LET output_type == Get(output.output_type, Name(""))
    IN IF output_type.name = "stream"
       THEN ExtendOrAppend(Get(output.text, List(<<>>)))
       ELSE IF output_type.name = "execute_result"
       THEN LET data == Get(output.data, Dict(Missing))
                text_plain == Get(data.text_plain, List(<<>>))
            IN ExtendOrAppend(text_plain)
       ELSE IF output_type.name = "error"
       THEN LET traceback == Get(output.traceback, List(<<>>))
            IN IF traceback.val # <<>>
               THEN <<Concat(traceback.val)>>
               ELSE <<>>
       ELSE <<>>

\* What one iteration of the loop adds to output_texts.
Contribution(output) ==
    LET output_type == Get(output.output_type, Name(""))
    IN IF output_type.name = "stream"
       THEN ExtendOrAppend(Get(output.text, List(<<>>)))
       ELSE IF output_type.name = "execute_result"
       THEN LET data == Get(output.data, Dict(Missing))
                text_plain == Get(data.text_plain, List(<<>>))
            IN ExtendOrAppend(text_plain)
       ELSE IF output_type.name = "error"
       THEN LET traceback == Get(output.traceback, List(<<>>))
            IN IF traceback.val # <<>>
               THEN <<JoinWith(<<NL>>, traceback.val)>>
               ELSE <<>>
       ELSE <<>>

\* raw_output = ''.join(output_texts).strip(); remove_ansi_codes(raw_output)
Normalize(texts) == remove_ansi_codes(Strip(Concat(texts)))

RECURSIVE CollectTexts(_)
\* output_texts after the loop over outs.
CollectTexts(outs) ==
    IF outs = <<>> THEN <<>>
    ELSE Contribution(Head(outs)) \o CollectTexts(Tail(outs))

extract_output_from_outputs(outs) == Normalize(CollectTexts(outs))

----------------------------------------------------------------------------
(* parse_jupyter_notebook *)

\* The content of a file: none, text that is no JSON, a JSON object with or
\* without the key cells, or a JSON array (what save_parsed_results writes).
FileAbsent == [kind |-> "absent"]
NotJson == [kind |-> "text"]
NotebookJson(cs) == [kind |-> "object", cells |-> cs]
ResultsJson(entries) == [kind |-> "array", items |-> entries]

\* Python's truth value of a string or a list.
Truthy(v) == v.val # <<>>

\* SourceText with the fragments joined by newlines.
SourceText_NewlineJoined(source) ==
    IF source.tag = "list" THEN JoinWith(<<NL>>, source.val) ELSE source.val

\* Line 34: ''.join(source) if isinstance(source, list) else source
SourceText(source) ==
    IF source.tag = "list" THEN Concat(source.val) ELSE source.val

\* CellEntry with the test of line 42 reduced to `if title`.
CellEntry_TitleOnly(cell) ==
    LET cell_type == Get(cell.cell_type, None)
        source == Get(cell.source, List(<<>>))
    IN IF ~(cell_type.tag = "str" /\ cell_type.name = "code") THEN <<>>
       ELSE IF ~Truthy(source) THEN <<>>
       ELSE LET t == extract_title_from_source(SourceText(source))
                outs == Get(cell.outputs, List(<<>>))
                o == extract_output_from_outputs(outs.val)
            IN IF t # <<>>
               THEN <<[title |-> t, output |-> o]>>
               ELSE <<>>

\* What one iteration of the loop over the cells appends to results.
CellEntry(cell) ==
    LET cell_type == Get(cell.cell_type, None)
        source == Get(cell.source, List(<<>>))
    IN IF ~(cell_type.tag = "str" /\ cell_type.name = "code") THEN <<>>
       ELSE IF ~Truthy(source) THEN <<>>
       ELSE LET t == extract_title_from_source(SourceText(source))
                outs == Get(cell.outputs, List(<<>>))
                o == extract_output_from_outputs(outs.val)
            IN IF t # <<>> /\ o # <<>>
               THEN <<[title |-> t, output |-> o]>>
               ELSE <<>>

RECURSIVE ParseCells(_)
\* results after the loop over cs.
ParseCells(cs) ==
    IF cs = <<>> THEN <<>> ELSE CellEntry(Head(cs)) \o ParseCells(Tail(cs))

\* Whether open() and json.load() succeed on the content, and .get exists.
Loadable(content) == content.kind = "object"

\* The whole call on a file content: <<"error">> or <<"ok", results>>.
parse_jupyter_notebook(content) ==
    IF ~Loadable(content) THEN <<"error", <<>>>>
    ELSE <<"ok", ParseCells(Get(content.cells, List(<<>>)).val)>>

\* Lines 19-22: open, json.load (which raise on a missing file or on text
\* that is no JSON), results = [].
ParseLoad ==
    /\ pc = "load"
    /\ IF notebook.kind \in {"absent", "text"}
       THEN /\ pc' = "done"
            /\ outcome' = "error"
            /\ UNCHANGED results
       ELSE /\ pc' = "cells"
            /\ results' = <<>>
            /\ UNCHANGED outcome
    /\ UNCHANGED <<notebook, cells, idx, titleVars, outputVars, saveVars>>

\* ParseGetCells with notebook['cells'], which raises on a missing key.
ParseGetCells_KeyError ==
    /\ pc = "cells"
    /\ IF notebook.kind # "object" \/ notebook.cells.tag = "missing"
       THEN /\ pc' = "done"
            /\ outcome' = "error"
            /\ UNCHANGED <<cells, idx>>
       ELSE /\ cells' = notebook.cells.val
            /\ idx' = 0
            /\ pc' = "loop"
            /\ UNCHANGED outcome
    /\ UNCHANGED <<notebook, results, titleVars, outputVars, saveVars>>

\* Line 24: notebook.get('cells', []); a JSON array has no get.
ParseGetCells ==
    /\ pc = "cells"
    /\ IF notebook.kind # "object"
       THEN /\ pc' = "done"
            /\ outcome' = "error"
            /\ UNCHANGED <<cells, idx>>
       ELSE /\ cells' = Get(notebook.cells, List(<<>>)).val
            /\ idx' = 0
            /\ pc' = "loop"
            /\ UNCHANGED outcome
    /\ UNCHANGED <<notebook, results, titleVars, outputVars, saveVars>>

\* ParseCell with results.insert(0, ...) in place of results.append(...).
ParseCell_Prepend ==
    /\ pc = "loop"
    /\ idx < Len(cells)
    /\ results' = CellEntry(cells[idx + 1]) \o results
    /\ idx' = idx + 1
    /\ UNCHANGED <<pc, notebook, cells, outcome, titleVars, outputVars, saveVars>>

\* ParseCell with cell['outputs'], which raises on a cell without outputs.
ParseCell_OutputsKeyError ==
    /\ pc = "loop"
    /\ idx < Len(cells)
    /\ IF /\ cells[idx + 1].outputs.tag = "missing"
          /\ cells[idx + 1].cell_type = Name("code")
          /\ Truthy(Get(cells[idx + 1].source, List(<<>>)))
       THEN /\ pc' = "done"
            /\ outcome' = "error"
            /\ UNCHANGED <<results, idx>>
       ELSE /\ results' = results \o CellEntry(cells[idx + 1])
            /\ idx' = idx + 1
            /\ UNCHANGED <<pc, outcome>>
    /\ UNCHANGED <<notebook, cells, titleVars, outputVars, saveVars>>

\* Lines 24-46: one iteration of the loop.
ParseCell ==
    /\ pc = "loop"
    /\ idx < Len(cells)
    /\ results' = results \o CellEntry(cells[idx + 1])
    /\ idx' = idx + 1
    /\ UNCHANGED <<pc, notebook, cells, outcome, titleVars, outputVars, saveVars>>

\* Line 48: return results.
ParseReturn ==
    /\ pc = "loop"
    /\ idx = Len(cells)
    /\ pc' = "done"
    /\ outcome' = "ok"
    /\ UNCHANGED <<notebook, cells, idx, results, titleVars, outputVars, saveVars>>

ParseNext == ParseLoad \/ ParseGetCells \/ ParseCell \/ ParseReturn

----------------------------------------------------------------------------
(* extract_title_from_source and extract_output_from_outputs called alone *)

\* Line 65 or 67: the call returns.
TitleCall ==
    /\ pc = "title"
    /\ title' = extract_title_from_source(source_text)
    /\ pc' = "done"
    /\ outcome' = "ok"
    /\ UNCHANGED <<source_text, outputVars, parseVars, saveVars>>

TitleNext == TitleCall

\* Lines 81-105: one iteration of the loop over the records.
OutputStep ==
    /\ pc = "outputs"
    /\ oidx < Len(outputs)
    /\ output_texts' = output_texts \o Contribution(outputs[oidx + 1])
    /\ oidx' = oidx + 1
    /\ UNCHANGED <<pc, outcome, outputs, output_text, titleVars, parseVars, saveVars>>

\* Lines 108-109: join, strip, remove the ANSI codes, return.
OutputReturn ==
    /\ pc = "outputs"
    /\ oidx = Len(outputs)
    /\ output_text' = Normalize(output_texts)
    /\ pc' = "done"
    /\ outcome' = "ok"
    /\ UNCHANGED <<outputs, oidx, output_texts, titleVars, parseVars, saveVars>>

OutputNext == OutputStep \/ OutputReturn

----------------------------------------------------------------------------
(* save_parsed_results *)

\* A path is a sequence of pieces of text; a piece that ends in "/" names the
\* directory of the file.
IPYNB == ".ipynb"
PARSED_JSON == "_parsed.json"

\* str.replace('.ipynb', '_parsed.json'): every occurrence is replaced.
ReplaceSuffix(path) ==
    [i \in 1..Len(path) |-> IF path[i] = IPYNB THEN PARSED_JSON ELSE path[i]]

\* Path(path).parent
Parent(path) == IF path # <<>> /\ Head(path) = "out/" THEN "out" ELSE "."

\* json.dump(results, f, indent=2, ensure_ascii=False): the file holds the
\* entries as a JSON array.
Dumped(entries) == ResultsJson(entries)

\* Lines 123-124: the default output path.
SaveDerive ==
    /\ pc = "save"
    /\ output_path' = IF output_path.tag = "none"
                      THEN Str(ReplaceSuffix(notebook_path))
                      ELSE output_path
    /\ pc' = "mkdir"
    /\ UNCHANGED <<outcome, fs, dirs, notebook_path, remove_source, written,
                   remove_tried, warned, ret, titleVars, outputVars, parseVars>>

\* Lines 127-128: mkdir(parents=True, exist_ok=True); creating a directory
\* may be refused by the system.
SaveMkdir ==
    /\ pc = "mkdir"
    /\ \E refused \in BOOLEAN :
         IF Parent(output_path.val) \notin dirs /\ refused
         THEN /\ pc' = "done"
              /\ outcome' = "error"
              /\ UNCHANGED dirs
         ELSE /\ dirs' = dirs \cup {Parent(output_path.val)}
              /\ pc' = "parse"
              /\ UNCHANGED outcome
    /\ UNCHANGED <<fs, notebook_path, output_path, remove_source, written,
                   remove_tried, warned, ret, titleVars, outputVars, parseVars>>

\* Line 130: results = parse_jupyter_notebook(notebook_path)
SaveParse ==
    /\ pc = "parse"
    /\ LET r == parse_jupyter_notebook(fs[notebook_path])
       IN IF r[1] = "error"
          THEN /\ pc' = "done"
               /\ outcome' = "error"
               /\ UNCHANGED <<notebook, results>>
          ELSE /\ notebook' = fs[notebook_path]
               /\ results' = r[2]
               /\ pc' = "write"
               /\ UNCHANGED outcome
    /\ UNCHANGED <<cells, idx, saveVars, titleVars, outputVars>>

\* Lines 132-133: open(output_path, 'w') and json.dump; opening may be
\* refused by the system.
SaveWrite ==
    /\ pc = "write"
    /\ \E refused \in BOOLEAN :
         IF refused \/ Parent(output_path.val) \notin dirs
         THEN /\ pc' = "done"
              /\ outcome' = "error"
              /\ UNCHANGED <<fs, written>>
         ELSE /\ fs' = [fs EXCEPT ![output_path.val] = Dumped(results)]
              /\ written' = TRUE
              /\ pc' = "remove"
              /\ UNCHANGED outcome
    /\ UNCHANGED <<dirs, notebook_path, output_path, remove_source,
                   remove_tried, warned, ret, titleVars, outputVars, parseVars>>

\* SaveRemove without the try/except: a failure of os.remove ends the call.
SaveRemove_Propagates ==
    /\ pc = "remove"
    /\ IF remove_source
       THEN /\ remove_tried' = TRUE
            /\ \E refused \in BOOLEAN :
                 IF refused \/ fs[notebook_path].kind = "absent"
                 THEN /\ pc' = "done"
                      /\ outcome' = "error"
                      /\ UNCHANGED <<fs, warned>>
                 ELSE /\ fs' = [fs EXCEPT ![notebook_path] = FileAbsent]
                      /\ pc' = "return"
                      /\ UNCHANGED <<warned, outcome>>
       ELSE /\ pc' = "return"
            /\ UNCHANGED <<fs, remove_tried, warned, outcome>>
    /\ UNCHANGED <<dirs, notebook_path, output_path, remove_source, written,
                   ret, titleVars, outputVars, parseVars>>

\* Lines 139-144: os.remove(notebook_path) inside try/except Exception; it
\* fails when the system refuses it or the file is not there.
SaveRemove ==
    /\ pc = "remove"
    /\ IF remove_source
       THEN /\ remove_tried' = TRUE
            /\ \E refused \in BOOLEAN :
                 IF refused \/ fs[notebook_path].kind = "absent"
                 THEN /\ warned' = TRUE
                      /\ UNCHANGED fs
                 ELSE /\ fs' = [fs EXCEPT ![notebook_path] = FileAbsent]
                      /\ UNCHANGED warned
       ELSE UNCHANGED <<fs, remove_tried, warned>>
    /\ pc' = "return"
    /\ UNCHANGED <<outcome, dirs, notebook_path, output_path, remove_source,
                   written, ret, titleVars, outputVars, parseVars>>

\* Line 146: return output_path
SaveReturn ==
    /\ pc = "return"
    /\ ret' = output_path
    /\ outcome' = "ok"
    /\ pc' = "done"
    /\ UNCHANGED <<fs, dirs, notebook_path, output_path, remove_source, written,
                   remove_tried, warned, titleVars, outputVars, parseVars>>

SaveNext ==
    SaveDerive \/ SaveMkdir \/ SaveParse \/ SaveWrite \/ SaveRemove \/ SaveReturn

----------------------------------------------------------------------------
(* Inputs *)

MaxSrcTokens == 5
MaxFrags == 2
MaxOutputs == 2
MaxCells == 2

\* The sequences over S of length at most n.
SeqsUpTo(S, n) == UNION {[1..k -> S] : k \in 0..n}

\* Source texts: up to MaxSrcTokens of these pieces, joined.
SrcTokens == {TRIPLE, <<QUOTE>>, <<NL>>, <<SP>>, <<TEXT>>}
SourceTexts == {Concat(ts) : ts \in SeqsUpTo(SrcTokens, MaxSrcTokens)}

\* A value given as one string or as a list of fragments.
Lines(pool) == {List(F) : F \in SeqsUpTo(pool, MaxFrags)}

Stream(text) == OutputRecord(Name("stream"), text, Missing, Missing)
ExecuteResult(data) == OutputRecord(Name("execute_result"), Missing, data, Missing)
Error(tb) == OutputRecord(Name("error"), Missing, Missing, tb)

\* Output records of every type, with and without their fields.
OutStrings == {<<>>, <<TEXT, NL>>, CSI, <<SP>>}
OutFrags == {<<TEXT, NL>>, CSI}
RecordPool ==
    {Stream(v) : v \in {Missing} \cup {Str(s) : s \in OutStrings} \cup Lines(OutFrags)}
    \cup {ExecuteResult(d) : d \in {Missing, Dict(Missing), Dict(Str(<<TEXT>>)),
                                    Dict(List(<<<<TEXT>>, <<NL>>>>))}}
    \cup {Error(tb) : tb \in {Missing, List(<<>>), List(<<<<TEXT>>>>),
                              List(<<<<TEXT>>, <<LETTER>>>>)}}
    \cup {OutputRecord(Name("display_data"), Str(<<TEXT>>), Missing, Missing),
          OutputRecord(Missing, Str(<<TEXT>>), Missing, Missing)}

IdleTitle == source_text = <<>> /\ title = <<>>
IdleOutput ==
    outputs = <<>> /\ oidx = 0 /\ output_texts = <<>> /\ output_text = <<>>
IdleParse == notebook = FileAbsent /\ cells = <<>> /\ idx = 0 /\ results = <<>>
IdleSave ==
    /\ fs = <<>> /\ dirs = {} /\ notebook_path = <<>> /\ output_path = None
    /\ remove_source = FALSE /\ written = FALSE /\ remove_tried = FALSE
    /\ warned = FALSE /\ ret = None

\* A call of extract_title_from_source.
TitleInit ==
    /\ pc = "title" /\ outcome = "running"
    /\ source_text \in SourceTexts
    /\ title = <<>>
    /\ IdleOutput /\ IdleParse /\ IdleSave

\* A call of extract_output_from_outputs.
OutputInit ==
    /\ pc = "outputs" /\ outcome = "running"
    /\ outputs \in SeqsUpTo(RecordPool, MaxOutputs)
    /\ oidx = 0 /\ output_texts = <<>> /\ output_text = <<>>
    /\ IdleTitle /\ IdleParse /\ IdleSave

\* A call of parse_jupyter_notebook on a file whose content is one of docs.
ParseInit(docs) ==
    /\ pc = "load" /\ outcome = "running"
    /\ notebook \in docs
    /\ cells = <<>> /\ idx = 0 /\ results = <<>>
    /\ IdleTitle /\ IdleOutput /\ IdleSave

\* Well-formed cells: every type, sources with and without a docstring,
\* outputs with and without text.
CodeSources ==
    {<<>>, <<TEXT>>, TRIPLE \o <<TEXT, NL>>, TRIPLE \o <<LETTER, NL>>,
     TRIPLE \o <<SP, NL>>}
CellOutputs ==
    {<<>>, <<Stream(Str(<<TEXT, NL>>))>>, <<Stream(Str(<<SP, NL>>))>>,
     <<Stream(Str(<<LETTER>>))>>}
CellPool ==
    {Cell(Name("code"), Str(s), List(o)) : s \in CodeSources, o \in CellOutputs}
    \cup {Cell(Name(ct), Str(TRIPLE \o <<TEXT, NL>>), List(o)) :
            ct \in {"markdown", "raw"},
            o \in {<<>>, <<Stream(Str(<<TEXT, NL>>))>>}}
Documents ==
    {FileAbsent, NotJson, ResultsJson(<<>>), NotebookJson(Missing)}
    \cup {NotebookJson(List(cs)) : cs \in SeqsUpTo(CellPool, MaxCells)}

\* Cells and records that lack any subset of their fields.
DocSource == Str(TRIPLE \o <<TEXT, NL>>)
WholeStream == Stream(Str(<<LETTER, NL>>))
SparseRecords ==
    {OutputRecord(Missing, Str(<<TEXT>>), Missing, Missing), Stream(Missing),
     ExecuteResult(Missing), ExecuteResult(Dict(Missing)), Error(Missing)}
WholeRecords ==
    {WholeStream, ExecuteResult(Dict(Str(<<TEXT>>))), Error(List(<<<<TEXT>>>>))}
SparseOutputs ==
    {Missing, List(<<>>)}
    \cup {List(<<r>>) : r \in SparseRecords \cup WholeRecords}
    \cup {List(<<r, WholeStream>>) : r \in SparseRecords}
SparseCells ==
    {Cell(f[1], f[2], o) :
        f \in {<<Missing, Missing>>, <<Missing, DocSource>>, <<Name("code"), Missing>>},
        o \in {Missing, List(<<WholeStream>>)}}
    \cup {Cell(Name("code"), DocSource, o) : o \in SparseOutputs}
SparseDocuments ==
    {NotebookJson(List(cs)) : cs \in SeqsUpTo(SparseCells, MaxCells)}

\* Cells whose source and whose record's text are lists of fragments.
SrcFrags == {<<>>, TRIPLE, <<TEXT, NL>>}
TextFrags == {<<>>, <<TEXT>>, <<SP>>}
FragCells ==
    {Cell(Name("code"), src, List(<<r>>)) :
        src \in Lines(SrcFrags),
        r \in {Stream(v) : v \in Lines(TextFrags)}
              \cup {ExecuteResult(Dict(v)) : v \in Lines(TextFrags)}}
WholeCell == Cell(Name("code"), Str(TRIPLE \o <<LETTER, NL>>), List(<<WholeStream>>))
FragDocuments ==
    {NotebookJson(List(<<c>>)) : c \in FragCells}
    \cup {NotebookJson(List(<<WholeCell, c>>)) : c \in FragCells}

\* Paths, with and without the suffix .ipynb, in and out of a directory.
NotebookPaths == {<<"nb", IPYNB>>, <<"nb">>, <<"out/", "nb", IPYNB>>}
OutputPaths ==
    {<<"nb", IPYNB>>, <<"nb">>, <<"nb", PARSED_JSON>>, <<"out/", "nb", ".json">>}
AllPaths ==
    NotebookPaths \cup OutputPaths \cup {ReplaceSuffix(p) : p \in NotebookPaths}

\* What the file at notebook_path may hold.
OtherCell ==
    Cell(Name("code"), Str(TRIPLE \o <<TEXT, NL>>), List(<<Stream(Str(<<TEXT, NL>>))>>))
SourceContents ==
    {FileAbsent, NotJson, NotebookJson(Missing), NotebookJson(List(<<>>)),
     NotebookJson(List(<<WholeCell>>)), NotebookJson(List(<<WholeCell, OtherCell>>))}

\* What an earlier run may have left at the other paths.
StaleResults == ResultsJson(<<[title |-> <<TEXT>>, output |-> <<TEXT>>]>>)

\* A call of save_parsed_results.
SaveInit ==
    /\ pc = "save" /\ outcome = "running"
    /\ notebook_path \in NotebookPaths
    /\ output_path \in {None} \cup {Str(p) : p \in OutputPaths}
    /\ remove_source \in BOOLEAN
    /\ \E c \in SourceContents, other \in {FileAbsent, StaleResults} :
         fs = [p \in AllPaths |-> IF p = notebook_path THEN c ELSE other]
    /\ dirs = {".", Parent(notebook_path)}
    /\ written = FALSE /\ remove_tried = FALSE /\ warned = FALSE /\ ret = None
    /\ IdleTitle /\ IdleOutput /\ IdleParse

Init == ParseInit(Documents)
MissingInit == ParseInit(SparseDocuments)
FragsInit == ParseInit(FragDocuments)

Spec == Init /\ [][ParseNext]_vars
SpecMissing == MissingInit /\ [][ParseNext]_vars
SpecFrags == FragsInit /\ [][ParseNext]_vars
SpecSave == SaveInit /\ [][SaveNext]_vars
SpecTitle == TitleInit /\ [][TitleNext]_vars
SpecOutput == OutputInit /\ [][OutputNext]_vars

----------------------------------------------------------------------------
(* Claims about extract_title_from_source *)

\* The first position of s at or after i that starts three quotes, 0 for none.
RECURSIVE FirstTriple(_, _)
FirstTriple(s, i) ==
    IF i + 2 > Len(s) THEN 0
    ELSE IF SubSeq(s, i, i + 2) = TRIPLE THEN i
    ELSE FirstTriple(s, i + 1)

\* The first docstring of s opens with a blank line: its three quotes are
\* followed by a newline, directly or after blanks only.
BlankFirstLine(s) ==
    LET i == FirstTriple(s, 1)
    IN /\ i # 0
       /\ \E j \in (i + 3)..Len(s) :
            /\ s[j] = NL
            /\ \A k \in (i + 3)..(j - 1) : s[k] \in Whitespace \ {NL}

\* C5: a source whose first docstring has a blank first line gets the empty
\* title, whatever follows later in the source.
C5_BlankFirstLineGivesNoTitle ==
    (pc = "done" /\ BlankFirstLine(source_text)) => title = <<>>

\* The case of C5 that the code decides otherwise: the quotes are followed
\* directly by a newline and a later triple quote starts a line of text.
C5_LaterMarkerCase ==
    /\ pc = "done"
    /\ source_text = TRIPLE \o <<NL>> \o TRIPLE \o <<TEXT, NL>>
    /\ title = <<TEXT>>

----------------------------------------------------------------------------
(* Claims about extract_output_from_outputs *)

\* v with the escape sequences removed from each of its strings.
AnsiFreeValue(v) ==
    IF v.tag = "str" THEN Str(remove_ansi_codes(v.val))
    ELSE IF v.tag = "list"
    THEN List([i \in 1..Len(v.val) |-> remove_ansi_codes(v.val[i])])
    ELSE v

\* The records with the escape sequences removed from their texts beforehand.
AnsiFreeRecords(outs) ==
    [i \in 1..Len(outs) |->
        OutputRecord(outs[i].output_type,
                     AnsiFreeValue(outs[i].text),
                     IF outs[i].data.tag = "dict"
                     THEN Dict(AnsiFreeValue(outs[i].data.text_plain))
                     ELSE outs[i].data,
                     AnsiFreeValue(outs[i].traceback))]

\* s neither starts nor ends with whitespace.
Trimmed(s) == s = <<>> \/ (s[1] \notin Whitespace /\ s[Len(s)] \notin Whitespace)

\* C6: the output of records that carry escape sequences is the output of the
\* same records with the sequences removed beforehand, and it is trimmed.
C6_AnsiRemovalCommutes ==
    pc = "done" =>
        /\ output_text = extract_output_from_outputs(AnsiFreeRecords(outputs))
        /\ Trimmed(output_text)

\* The text the claim gives a value that is one string or a list of strings.
TextOf(v) ==
    IF v.tag = "str" THEN v.val
    ELSE IF v.tag = "list" THEN Concat(v.val)
    ELSE <<>>

\* One record's contribution as the claim words it.
RecordText(r) ==
    IF r.output_type = Name("stream") THEN TextOf(r.text)
    ELSE IF r.output_type = Name("execute_result")
    THEN IF r.data.tag = "dict" THEN TextOf(r.data.text_plain) ELSE <<>>
    ELSE IF r.output_type = Name("error")
    THEN IF r.traceback.tag = "list" THEN JoinWith(<<NL>>, r.traceback.val) ELSE <<>>
    ELSE <<>>

\* C7: the returned string is the concatenation, in record order and with no
\* separator, of the records' contributions, trimmed and then stripped of
\* escape sequences; records that contribute nothing give the empty string.
C7_OutputIsNormalizedConcatenation ==
    pc = "done" =>
        LET parts == [i \in 1..Len(outputs) |-> RecordText(outputs[i])]
        IN /\ output_text = remove_ansi_codes(Strip(Concat(parts)))
           /\ (\A i \in 1..Len(outputs) : parts[i] = <<>>) => output_text = <<>>

\* An error record with a two-line traceback, then a stream record given as a
\* list that holds an escape sequence, have been normalized.
C7_Witness ==
    /\ pc = "done"
    /\ outputs = <<Error(List(<<<<TEXT>>, <<LETTER>>>>)),
                   Stream(List(<<CSI, <<TEXT, NL>>>>))>>
    /\ output_text = <<TEXT, NL, LETTER, TEXT>>

----------------------------------------------------------------------------
(* Claims about parse_jupyter_notebook *)

\* The cells of a decoded document, none when it has no cells key.
DocCells(nb) == IF nb.cells.tag = "list" THEN nb.cells.val ELSE <<>>

TitleOfCell(c) == extract_title_from_source(TextOf(c.source))
OutputOfCell(c) ==
    IF c.outputs.tag = "list" THEN extract_output_from_outputs(c.outputs.val)
    ELSE <<>>

\* The source of the cell holds three consecutive quotes.
HasDocstring(c) == FirstTriple(TextOf(c.source), 1) # 0

\* Some record of the cell carries text.
HasTextualOutput(c) ==
    /\ c.outputs.tag = "list"
    /\ \E i \in 1..Len(c.outputs.val) : RecordText(c.outputs.val[i]) # <<>>

\* C1: no entry of the result has an empty title or an empty output; a code
\* cell without a docstring, or without textual output, produces no entry.
C1_EntriesAreNonEmpty ==
    /\ \A i \in 1..Len(results) :
          results[i].title # <<>> /\ results[i].output # <<>>
    /\ Len(results) <=
          Cardinality({j \in 1..idx :
                          HasDocstring(cells[j]) /\ HasTextualOutput(cells[j])})

\* A cell with a title and no output, then a cell with both, were parsed.
C1_Witness ==
    /\ pc = "done" /\ outcome = "ok"
    /\ Len(cells) = 2
    /\ TitleOfCell(cells[1]) # <<>> /\ cells[1].outputs = List(<<>>)
    /\ cells[1].cell_type = Name("code")
    /\ Len(results) = 1
    /\ results[1].title = TitleOfCell(cells[2])

\* The cell is one the claim says yields an entry.
Qualifies(c) ==
    /\ c.cell_type = Name("code")
    /\ c.source.tag \in {"str", "list"} /\ c.source.val # <<>>
    /\ TitleOfCell(c) # <<>>
    /\ OutputOfCell(c) # <<>>

\* C2: the result is, in document order, the {title, output} of exactly the
\* code cells with a non-empty source, title and output.
C2_ResultIsFilteredCellsInOrder ==
    (pc = "done" /\ outcome = "ok") =>
        LET q == SelectSeq(DocCells(notebook), Qualifies)
        IN results = [i \in 1..Len(q) |->
                        [title |-> TitleOfCell(q[i]), output |-> OutputOfCell(q[i])]]

\* Two code cells with different titles were both kept, in their order, from
\* a document parsed to the end.
C2_Witness ==
    /\ pc = "done" /\ outcome = "ok"
    /\ Len(results) = 2
    /\ results[1].title = <<LETTER>> /\ results[2].title = <<TEXT>>

\* The decoded document is an object without the key cells.
NoCellsKey == notebook.kind = "object" /\ notebook.cells.tag = "missing"

RecordLacksField(r) ==
    \/ r.output_type.tag = "missing"
    \/ r.output_type = Name("stream") /\ r.text.tag = "missing"
    \/ r.output_type = Name("execute_result")
         /\ (r.data.tag = "missing" \/ r.data.text_plain.tag = "missing")
    \/ r.output_type = Name("error") /\ r.traceback.tag = "missing"

\* The cell lacks one of cell_type, source, outputs.
CellLacksField(c) ==
    \/ c.cell_type.tag = "missing"
    \/ c.source.tag = "missing"
    \/ c.outputs.tag = "missing"

WholeRecord(r) == ~RecordLacksField(r)
WholeCellTest(c) == ~CellLacksField(c)

\* The cells that lack no field, each with only its records that lack none.
Pruned(cs) ==
    LET kept == SelectSeq(cs, WholeCellTest)
    IN [i \in 1..Len(kept) |->
          Cell(kept[i].cell_type, kept[i].source,
               List(SelectSeq(kept[i].outputs.val, WholeRecord)))]

\* C4: a document whose cells and records lack fields never ends in an error;
\* its result is that of the document without the cells and records that
\* lack a field.
C4_MissingFieldsAreNeverFatal ==
    /\ outcome # "error"
    /\ pc = "done" =>
          <<outcome, results>> =
              parse_jupyter_notebook(NotebookJson(List(Pruned(DocCells(notebook)))))

\* A cell without cell_type and without outputs, then a cell whose first
\* record lacks its text, were parsed.
C4_Witness ==
    /\ pc = "done"
    /\ DocCells(notebook) =
          <<Cell(Missing, DocSource, Missing),
            Cell(Name("code"), DocSource, List(<<Stream(Missing), WholeStream>>))>>
    /\ results = <<[title |-> <<TEXT>>, output |-> <<LETTER>>]>>

\* v given as one string.
JoinedValue(v) == IF v.tag = "list" THEN Str(Concat(v.val)) ELSE v

JoinedRecord(r) ==
    OutputRecord(r.output_type, JoinedValue(r.text),
                 IF r.data.tag = "dict" THEN Dict(JoinedValue(r.data.text_plain))
                 ELSE r.data,
                 r.traceback)

\* The document with every source, stream text and text/plain value that is a
\* list of fragments replaced by the concatenation of the fragments.
Joined(nb) ==
    LET cs == DocCells(nb)
    IN NotebookJson(List(
         [i \in 1..Len(cs) |->
            Cell(cs[i].cell_type, JoinedValue(cs[i].source),
                 List([k \in 1..Len(cs[i].outputs.val) |->
                         JoinedRecord(cs[i].outputs.val[k])]))]))

\* C8: a document with a field given as a list of fragments has the result
\* of the document with the field given as the fragments' concatenation.
C8_FragmentsEqualTheirConcatenation ==
    pc = "done" => <<outcome, results>> = parse_jupyter_notebook(Joined(notebook))

\* A cell whose source and stream text are two fragments each was parsed.
C8_Witness ==
    /\ pc = "done"
    /\ DocCells(notebook) =
          <<Cell(Name("code"), List(<<TRIPLE, <<TEXT, NL>>>>),
                 List(<<Stream(List(<<<<SP>>, <<TEXT>>>>))>>))>>
    /\ results = <<[title |-> <<TEXT>>, output |-> <<TEXT>>]>>

----------------------------------------------------------------------------
(* Claims about save_parsed_results *)

\* The file at path p holds the serialized results of the call.
HoldsResults(p) == fs[p].kind = "array" /\ fs[p].items = results

\* C9: the source is removed only after the results were parsed and written;
\* a removal that fails is only warned about: the call returns the output
\* path and the written results file is intact.
C9_RemovalIsBestEffort ==
    /\ remove_tried => (written /\ remove_source)
    /\ (pc = "remove" /\ ~remove_tried) => (written /\ HoldsResults(output_path.val))
    /\ remove_tried => outcome # "error"
    /\ warned => HoldsResults(output_path.val)
    /\ (pc = "done" /\ remove_tried) => (outcome = "ok" /\ ret = output_path)

\* A call whose removal of the source failed has returned.
C9_Witness ==
    /\ pc = "done" /\ outcome = "ok"
    /\ remove_source /\ warned
    /\ fs[notebook_path].kind = "object"
    /\ Len(results) = 2

\* C10: when the call returns normally, the file at the returned path exists
\* and holds the serialized results of the call.
C10_ReturnedPathHoldsResults ==
    (pc = "done" /\ outcome = "ok") => HoldsResults(ret.val)

====
